---- MODULE Spec2Model ----
(***************************************************************************)
(* Model of the onboard backend: the refresh-token rotation of the auth    *)
(* controller, the onboarding state tracker, the document registry and the *)
(* admin review workflow, over the relational tables they share.           *)
(***************************************************************************)
EXTENDS Integers, Sequences, FiniteSets, TLC

(* ---------------------------------------------------------------------- *)
(* Bounds of the model                                                     *)
(* ---------------------------------------------------------------------- *)
MaxClients == 2
MaxTime == 2
MaxRows == 4
MaxDocs == 2
MaxLogs == 2
MaxTokens == 3
RefreshExpiresIn == 2

(* ---------------------------------------------------------------------- *)
(* Program constants                                                       *)
(* ---------------------------------------------------------------------- *)
TotalSteps == 4
VerificationExpiresIn == 86400

Null == [null |-> TRUE]
NoTime == -1
NoRequest == [op |-> "none"]

ClientIds == 1..MaxClients
DocIds == 1..MaxDocs
Catalog == 1..TotalSteps
ProfileFields == {"firstName", "lastName", "companyName", "phone"}
\* /auth/refresh requests that can be in flight at the same time
Procs == {"r1", "r2"}
Idle == [pc |-> "idle"]
\* a request without req.client
Anonymous == 0
\* fetchWithAuth calls that can be in flight in one browser tab
Requests == {"q1", "q2", "q3"}
\* an absent cookie (Cookies.get returns undefined)
NoCookie == 0

VARIABLES clients, nextClientId, now, refreshTokens, verificationTokens,
          nextRowId, nextTokenId, req, progress, stepProgress, documents,
          nextDocId, activityLog, nextLogId, last, resetTokens, fp, rp, bulk,
          cookies, refreshPromise, fetches, refreshCalls, sessionExpired, issued

vars == <<clients, nextClientId, now, refreshTokens, verificationTokens,
          nextRowId, nextTokenId, req, progress, stepProgress, documents,
          nextDocId, activityLog, nextLogId, last, resetTokens, fp, rp, bulk,
          cookies, refreshPromise, fetches, refreshCalls, sessionExpired, issued>>

resetVars == <<resetTokens, fp, rp>>
authVars == <<refreshTokens, verificationTokens, nextRowId, nextTokenId, req, resetVars>>
onbVars == <<progress, stepProgress>>
\* the browser side: the API client of the frontend (lib/api.ts)
webVars == <<cookies, refreshPromise, fetches, refreshCalls, sessionExpired, issued>>
docVars == <<documents, nextDocId, activityLog, nextLogId, bulk, webVars>>

(* ---------------------------------------------------------------------- *)
(* Pure helpers                                                            *)
(* ---------------------------------------------------------------------- *)
Min(a, b) == IF a < b THEN a ELSE b

hashPassword(password) == [hashOf |-> password]

comparePassword(password, hash) == hash.hashOf = password

\* jwt.sign is deterministic: the token is a function of the payload, the
\* type and the issue second (iat); exp = iat + expiresIn.
generateRefreshToken(clientId, email) ==
    [clientId |-> clientId, email |-> email, type |-> "refresh", iat |-> now]

generateAccessToken_AsRefresh(clientId, email) ==
    [clientId |-> clientId, email |-> email, type |-> "refresh", iat |-> now]

generateAccessToken(clientId, email) ==
    [clientId |-> clientId, email |-> email, type |-> "access", iat |-> now]

getRefreshTokenExpiry == now + RefreshExpiresIn

\* the secret a token was signed with: the server signs access tokens with
\* the access secret and refresh tokens with the refresh secret; a token
\* that names its secret is one of another type signed with that secret
SignedWith(token) ==
    IF "secret" \in DOMAIN token THEN token.secret
    ELSE IF "type" \in DOMAIN token THEN token.type
    ELSE "none"

\* crypto.randomBytes(32): a value never drawn before
randomBytes == [random |-> nextTokenId]

ClientByEmail(email) == {c \in ClientIds : clients[c] # Null /\ clients[c].email = email}

\* authenticate middleware: the access token resolves to an existing client.
Authenticated(c) == c \in ClientIds /\ clients[c] # Null

NoStepRows == [n \in Catalog |-> Null]

(* ---------------------------------------------------------------------- *)
(* Initial state: empty tables, onboarding steps seeded                    *)
(* ---------------------------------------------------------------------- *)
Init ==
    /\ clients = [c \in ClientIds |-> Null]
    /\ nextClientId = 1
    /\ now = 0
    /\ refreshTokens = {}
    /\ verificationTokens = {}
    /\ nextRowId = 1
    /\ nextTokenId = 1
    /\ req = [p \in Procs |-> Idle]
    /\ progress = [c \in ClientIds |-> Null]
    /\ stepProgress = [c \in ClientIds |-> NoStepRows]
    /\ documents = [d \in DocIds |-> Null]
    /\ nextDocId = 1
    /\ activityLog = {}
    /\ nextLogId = 1
    /\ last = NoRequest
    /\ resetTokens = {}
    /\ fp = [p \in Procs |-> Idle]
    /\ rp = [p \in Procs |-> Idle]
    /\ bulk = [p \in Procs |-> Idle]
    /\ cookies = [accessToken |-> NoCookie, refreshToken |-> NoCookie]
    /\ refreshPromise = Null
    /\ fetches = [r \in Requests |-> Idle]
    /\ refreshCalls = 0
    /\ sessionExpired = 0
    /\ issued = 0

(* ---------------------------------------------------------------------- *)
(* Clock: Date.now() in seconds, the granularity of a token's iat          *)
(* ---------------------------------------------------------------------- *)
Tick ==
    /\ now < MaxTime
    /\ now' = now + 1
    /\ last' = NoRequest
    /\ UNCHANGED <<clients, nextClientId, authVars, onbVars, docVars>>

(* ---------------------------------------------------------------------- *)
(* POST /auth/signup                                                       *)
(* ---------------------------------------------------------------------- *)
NewClient(email, password, firstName, lastName) ==
    [email |-> email, passwordHash |-> hashPassword(password),
     role |-> "USER", emailVerified |-> FALSE,
     profile |-> [f \in ProfileFields |->
                    IF f = "firstName" THEN firstName
                    ELSE IF f = "lastName" THEN lastName ELSE "NULL"]]

NewProgress_Started(status) ==
    [currentStep |-> 1, status |-> "IN_PROGRESS", completedAt |-> NoTime]

NewProgress(status) == [currentStep |-> 1, status |-> status, completedAt |-> NoTime]

signup(email, password, firstName, lastName) ==
    IF ClientByEmail(email) # {}
    THEN /\ last' = [op |-> "signup", email |-> email, code |-> 409]
         /\ UNCHANGED <<clients, nextClientId, now, authVars, onbVars, docVars>>
    ELSE /\ nextClientId <= MaxClients
         /\ nextRowId <= MaxRows
         /\ nextTokenId <= MaxTokens
         /\ LET id == nextClientId
                token == generateRefreshToken(id, email)
            IN /\ clients' = [clients EXCEPT ![id] =
                                 NewClient(email, password, firstName, lastName)]
               /\ progress' = [progress EXCEPT ![id] = NewProgress("PENDING")]
               /\ refreshTokens' = refreshTokens \cup
                     {[id |-> nextRowId, token |-> token, clientId |-> id,
                       expiresAt |-> getRefreshTokenExpiry]}
               /\ verificationTokens' = verificationTokens \cup
                     {[id |-> nextTokenId, token |-> randomBytes, clientId |-> id,
                       expiresAt |-> now + VerificationExpiresIn]}
               /\ nextRowId' = nextRowId + 1
               /\ nextTokenId' = nextTokenId + 1
               /\ nextClientId' = nextClientId + 1
               /\ last' = [op |-> "signup", email |-> email, code |-> 201,
                           client |-> id, refreshToken |-> token]
         /\ UNCHANGED <<now, req, stepProgress, docVars, resetVars>>

(* ---------------------------------------------------------------------- *)
(* Onboarding state tracker (onboarding.controller.ts)                     *)
(* ---------------------------------------------------------------------- *)
totalSteps_Hardcoded == 3

\* prisma.onboardingStep.count()
totalSteps == Cardinality(Catalog)

StepAhead_Lenient(stepNumber, currentStep) == stepNumber > currentStep + 1

\* "must be current or before current"
StepAhead(stepNumber, currentStep) == stepNumber > currentStep

isLastStep_OffByOne(stepNumber) == stepNumber = totalSteps + 1

isLastStep(stepNumber) == stepNumber = totalSteps

nextStep_Jump(stepNumber) == totalSteps

nextStep(stepNumber) == Min(stepNumber + 1, totalSteps)

CompletedProgress_Overrun(stepNumber) ==
    [currentStep |-> stepNumber + 1,
     status |-> IF isLastStep(stepNumber) THEN "COMPLETED" ELSE "IN_PROGRESS",
     completedAt |-> IF isLastStep(stepNumber) THEN now ELSE NoTime]

CompletedProgress(stepNumber) ==
    [currentStep |-> IF isLastStep(stepNumber) THEN stepNumber ELSE nextStep(stepNumber),
     status |-> IF isLastStep(stepNumber) THEN "COMPLETED" ELSE "IN_PROGRESS",
     completedAt |-> IF isLastStep(stepNumber) THEN now ELSE NoTime]

SavedOverallStatus_Always(status) == "IN_PROGRESS"

\* "Update overall progress status if still pending"
SavedOverallStatus(status) == IF status = "PENDING" THEN "IN_PROGRESS" ELSE status

\* stepProgress.upsert of saveStepData: an undefined data leaves the column alone
SavedStepRow(row, data) ==
    IF row = Null
    THEN [status |-> "IN_PROGRESS", data |-> data, completedAt |-> NoTime]
    ELSE [row EXCEPT !.status = "IN_PROGRESS",
                     !.data = IF data = Null THEN row.data ELSE data]

\* stepProgress.upsert of completeStep
CompletedStepRow(row, data) ==
    IF row = Null
    THEN [status |-> "COMPLETED", data |-> data, completedAt |-> now]
    ELSE [status |-> "COMPLETED",
          data |-> IF data = Null THEN row.data ELSE data,
          completedAt |-> now]

MergedProfile_OverwriteEmpty(profile, data) ==
    [f \in ProfileFields |-> IF f \in DOMAIN data THEN data[f] ELSE profile[f]]

\* client.update of step 1: `data.f || undefined` skips absent and empty fields
MergedProfile(profile, data) ==
    [f \in ProfileFields |->
        IF f \in DOMAIN data /\ data[f] # "" THEN data[f] ELSE profile[f]]

StepsWithProgress(c) ==
    [n \in Catalog |->
        IF stepProgress[c][n] = Null
        THEN [status |-> "PENDING", data |-> Null, completedAt |-> NoTime]
        ELSE stepProgress[c][n]]

getOnboardingStatus(c) ==
    /\ Authenticated(c)
    /\ LET p == IF progress[c] = Null THEN NewProgress("PENDING") ELSE progress[c]
       IN /\ progress' = [progress EXCEPT ![c] = p]
          /\ last' = [op |-> "getOnboardingStatus", client |-> c, code |-> 200,
                      currentStep |-> p.currentStep, status |-> p.status,
                      steps |-> StepsWithProgress(c)]
    /\ UNCHANGED <<clients, nextClientId, now, authVars, stepProgress, docVars>>

saveStepData(c, stepNumber, data) ==
    /\ Authenticated(c)
    /\ IF stepNumber \notin Catalog
       THEN /\ last' = [op |-> "saveStepData", client |-> c, stepNumber |-> stepNumber,
                        data |-> data, code |-> 404]
            /\ UNCHANGED onbVars
       ELSE LET p == IF progress[c] = Null THEN NewProgress("IN_PROGRESS")
                                          ELSE progress[c]
                row == SavedStepRow(stepProgress[c][stepNumber], data)
            IN /\ stepProgress' = [stepProgress EXCEPT ![c][stepNumber] = row]
               /\ progress' = [progress EXCEPT ![c] =
                                 [p EXCEPT !.status = SavedOverallStatus(p.status)]]
               /\ last' = [op |-> "saveStepData", client |-> c,
                           stepNumber |-> stepNumber, data |-> data, code |-> 200]
    /\ UNCHANGED <<clients, nextClientId, now, authVars, docVars>>

completeStep(c, stepNumber, data) ==
    /\ Authenticated(c)
    /\ IF stepNumber \notin Catalog
       THEN /\ last' = [op |-> "completeStep", client |-> c, stepNumber |-> stepNumber,
                        data |-> data, code |-> 404]
            /\ UNCHANGED <<clients, onbVars>>
       ELSE LET p == IF progress[c] = Null THEN NewProgress("IN_PROGRESS")
                                          ELSE progress[c]
            IN IF StepAhead(stepNumber, p.currentStep)
               THEN /\ progress' = [progress EXCEPT ![c] = p]
                    /\ last' = [op |-> "completeStep", client |-> c,
                                stepNumber |-> stepNumber, data |-> data, code |-> 400]
                    /\ UNCHANGED <<clients, stepProgress>>
               ELSE /\ stepProgress' = [stepProgress EXCEPT ![c][stepNumber] =
                                          CompletedStepRow(@, data)]
                    /\ progress' = [progress EXCEPT ![c] = CompletedProgress(stepNumber)]
                    /\ clients' = IF stepNumber = 1 /\ data # Null
                                  THEN [clients EXCEPT ![c].profile =
                                          MergedProfile(@, data)]
                                  ELSE clients
                    /\ last' = [op |-> "completeStep", client |-> c,
                                stepNumber |-> stepNumber, data |-> data, code |-> 200,
                                currentStep |-> CompletedProgress(stepNumber).currentStep,
                                status |-> CompletedProgress(stepNumber).status]
    /\ UNCHANGED <<nextClientId, now, authVars, docVars>>

(* ---------------------------------------------------------------------- *)
(* Specification of the onboarding tracker                                 *)
(* ---------------------------------------------------------------------- *)
OnbEmails == {"a@b.com"}
StepNumbers == 0..(TotalSteps + 1)
StepDataInputs == {Null, [firstName |-> "Zed", phone |-> ""]}

NextOnboarding ==
    \/ \E e \in OnbEmails : signup(e, "Secure123", "A", "B")
    \/ \E c \in ClientIds : getOnboardingStatus(c)
    \/ \E c \in ClientIds, n \in StepNumbers, d \in StepDataInputs : saveStepData(c, n, d)
    \/ \E c \in ClientIds, n \in StepNumbers, d \in StepDataInputs : completeStep(c, n, d)

SpecOnboarding == Init /\ [][NextOnboarding]_vars

(* ---------------------------------------------------------------------- *)
(* Properties of the onboarding tracker                                    *)
(* ---------------------------------------------------------------------- *)
\* the step just taken is completeStep(c, n, _) on a client that has a progress row
CompleteStepCall(c, n) ==
    /\ last'.op = "completeStep"
    /\ last'.client = c
    /\ last'.stepNumber = n
    /\ progress[c] # Null

SaveStepDataCall(c, n) ==
    /\ last'.op = "saveStepData"
    /\ last'.client = c
    /\ last'.stepNumber = n

OnboardingUnchanged(c) ==
    /\ progress'[c] = progress[c]
    /\ stepProgress'[c] = stepProgress[c]

\* C3 as stated: completeStep(n) with n greater than currentStep fails with
\* BadRequest (400) and changes neither the step rows nor the progress row.
C3_AheadIsBadRequest ==
    [][\A c \in ClientIds, n \in StepNumbers :
         (CompleteStepCall(c, n) /\ n > progress[c].currentStep)
            => (last'.code = 400 /\ OnboardingUnchanged(c))]_vars

\* C3 amended: completeStep(n) with n greater than currentStep fails, with
\* BadRequest (400) when n is a step of the catalog and with NotFound (404)
\* when it is not, and changes neither the step rows nor the progress row.
C3_AheadIsRejected ==
    [][\A c \in ClientIds, n \in StepNumbers :
         (CompleteStepCall(c, n) /\ n > progress[c].currentStep)
            => /\ last'.code = IF n \in Catalog THEN 400 ELSE 404
               /\ OnboardingUnchanged(c)]_vars

C3_Witness ==
    /\ last.op = "completeStep"
    /\ last.code = 400
    /\ last.stepNumber > progress[last.client].currentStep
    /\ stepProgress[last.client][last.stepNumber] = Null

\* C4 as stated: re-completing an already completed step below currentStep
\* succeeds and changes neither currentStep nor the overall status.
C4_RecompleteKeepsProgress ==
    [][\A c \in ClientIds, n \in Catalog :
         (/\ CompleteStepCall(c, n)
          /\ n < progress[c].currentStep
          /\ stepProgress[c][n] # Null
          /\ stepProgress[c][n].status = "COMPLETED")
            => /\ last'.code = 200
               /\ progress'[c].currentStep = progress[c].currentStep
               /\ progress'[c].status = progress[c].status]_vars

\* C5: completing the current step k, when k is not the last step of the
\* catalog, succeeds, marks step k COMPLETED with a completion time, moves
\* currentStep to k+1 and the overall status is IN_PROGRESS.
C5_CompleteCurrentAdvances ==
    [][\A c \in ClientIds, k \in Catalog :
         (/\ CompleteStepCall(c, k)
          /\ k = progress[c].currentStep
          /\ \E m \in Catalog : m > k)
            => /\ last'.code = 200
               /\ stepProgress'[c][k].status = "COMPLETED"
               /\ stepProgress'[c][k].completedAt # NoTime
               /\ progress'[c].currentStep = k + 1
               /\ progress'[c].status = "IN_PROGRESS"]_vars

C5_Witness ==
    /\ last.op = "completeStep"
    /\ last.code = 200
    /\ last.stepNumber = 3
    /\ progress[last.client].currentStep = 4
    /\ progress[last.client].status = "IN_PROGRESS"
    /\ stepProgress[last.client][3].status = "COMPLETED"

\* C6: completing the final step N when currentStep = N sets the overall
\* status to COMPLETED with currentStep = N, and a further completeStep(N)
\* in that state leaves currentStep at N and the status COMPLETED.
C6_FinalStepPins ==
    [][\A c \in ClientIds :
         (/\ CompleteStepCall(c, Cardinality(Catalog))
          /\ progress[c].currentStep = Cardinality(Catalog))
            => /\ last'.code = 200
               /\ progress'[c].status = "COMPLETED"
               /\ progress'[c].currentStep = Cardinality(Catalog)]_vars

C6_Witness ==
    /\ last.op = "completeStep"
    /\ last.code = 200
    /\ last.stepNumber = Cardinality(Catalog)
    /\ progress[last.client].status = "COMPLETED"
    /\ progress[last.client].currentStep = Cardinality(Catalog)

\* C7: every client's currentStep lies in [1, N], N the size of the catalog.
C7_CurrentStepInRange ==
    \A c \in ClientIds :
        progress[c] # Null =>
            /\ progress[c].currentStep >= 1
            /\ progress[c].currentStep <= Cardinality(Catalog)

C7_Witness ==
    /\ last.op = "completeStep"
    /\ last.code = 200
    /\ last.stepNumber = Cardinality(Catalog)
    /\ progress[last.client].currentStep = Cardinality(Catalog)

\* C8: saveStepData on a catalog step sets that step's row to IN_PROGRESS
\* with the given data, leaves currentStep and the other step rows alone and
\* changes the overall status only from PENDING to IN_PROGRESS; on a step
\* that is not in the catalog it fails with NotFound and changes nothing.
C8_SaveStepDataFrame ==
    [][\A c \in ClientIds, n \in StepNumbers :
         (SaveStepDataCall(c, n) /\ progress[c] # Null)
            => IF n \in Catalog
               THEN /\ last'.code = 200
                    /\ stepProgress'[c][n].status = "IN_PROGRESS"
                    /\ last'.data # Null => stepProgress'[c][n].data = last'.data
                    /\ \A m \in Catalog \ {n} : stepProgress'[c][m] = stepProgress[c][m]
                    /\ progress'[c].currentStep = progress[c].currentStep
                    /\ progress'[c].status =
                          IF progress[c].status = "PENDING" THEN "IN_PROGRESS"
                          ELSE progress[c].status
                    /\ clients' = clients
               ELSE /\ last'.code = 404
                    /\ OnboardingUnchanged(c)
                    /\ clients' = clients]_vars

C8_Witness ==
    /\ last.op = "saveStepData"
    /\ last.code = 200
    /\ last.data # Null
    /\ progress[last.client].status = "COMPLETED"
    /\ stepProgress[last.client][last.stepNumber].status = "IN_PROGRESS"

\* C24: completeStep changes the Client record only when the step number is
\* 1 and data is supplied; it then overwrites exactly the profile fields
\* (firstName, lastName, companyName, phone) that are present and non-empty
\* in the data and leaves the other fields and the other clients as they
\* were; completing any other step leaves every Client record unchanged.
C24_ProfileMergeOnStepOne ==
    [][last'.op = "completeStep" =>
         LET c == last'.client
             data == last'.data
         IN IF last'.stepNumber = 1 /\ data # Null
            THEN /\ last'.code = 200
                 /\ \A f \in ProfileFields :
                       clients'[c].profile[f] =
                          IF f \in DOMAIN data /\ data[f] # ""
                          THEN data[f] ELSE clients[c].profile[f]
                 /\ clients' = [clients EXCEPT ![c].profile = clients'[c].profile]
            ELSE clients' = clients]_vars

C24_Witness ==
    /\ last.op = "completeStep"
    /\ last.code = 200
    /\ last.stepNumber = 1
    /\ last.data # Null
    /\ last.data.phone = ""
    /\ clients[last.client].profile.firstName = "Zed"
    /\ clients[last.client].profile.lastName = "B"
    /\ clients[last.client].profile.phone = "NULL"

\* step n of client c has been marked COMPLETED at least once: completedAt
\* is written by completeStep alone and no update clears it
EverCompleted(c, n) ==
    /\ stepProgress[c][n] # Null
    /\ stepProgress[c][n].completedAt # NoTime

\* C28: the overall status of a client is COMPLETED only after every step of
\* the catalog has been marked COMPLETED for that client at least once, and
\* a step counts as marked only through a successful completeStep of it.
C28_CompletedNeedsEveryStep ==
    [][/\ \A c \in ClientIds, n \in Catalog :
             (EverCompleted(c, n)' /\ ~EverCompleted(c, n))
                => /\ last'.op = "completeStep"
                   /\ last'.code = 200
                   /\ last'.client = c
                   /\ last'.stepNumber = n
       /\ \A c \in ClientIds :
             (progress'[c] # Null /\ progress'[c].status = "COMPLETED")
                => \A n \in Catalog : EverCompleted(c, n)']_vars

C28_Witness ==
    /\ last.op = "completeStep"
    /\ last.code = 200
    /\ progress[last.client].status = "COMPLETED"
    /\ \A n \in Catalog : EverCompleted(last.client, n)
    /\ \E n \in Catalog : stepProgress[last.client][n].status = "IN_PROGRESS"

\* C29 as stated: once a step has been marked COMPLETED for a client, no
\* later saveStepData or completeStep call puts it back into IN_PROGRESS or
\* PENDING, and whenever the overall status is COMPLETED the final step's
\* StepProgress is COMPLETED.
C29_StepStatusMonotonic ==
    [][/\ \A c \in ClientIds, n \in Catalog :
             (/\ stepProgress[c][n] # Null
              /\ stepProgress[c][n].status = "COMPLETED"
              /\ last'.op \in {"saveStepData", "completeStep"})
                => /\ stepProgress'[c][n] # Null
                   /\ stepProgress'[c][n].status = "COMPLETED"
       /\ \A c \in ClientIds :
             (progress'[c] # Null /\ progress'[c].status = "COMPLETED")
                => /\ stepProgress'[c][totalSteps] # Null
                   /\ stepProgress'[c][totalSteps].status = "COMPLETED"]_vars

\* Supporting fact for C29: completeStep on its own never takes a step out
\* of COMPLETED.
C29_CompleteStepKeepsCompleted ==
    [][\A c \in ClientIds, n \in Catalog :
         (/\ stepProgress[c][n] # Null
          /\ stepProgress[c][n].status = "COMPLETED"
          /\ last'.op = "completeStep")
            => /\ stepProgress'[c][n] # Null
               /\ stepProgress'[c][n].status = "COMPLETED"]_vars

(* ---------------------------------------------------------------------- *)
(* Document registry (document.controller.ts)                              *)
(* ---------------------------------------------------------------------- *)
addDocument(c, category) ==
    /\ Authenticated(c)
    /\ nextDocId <= MaxDocs
    /\ documents' = [documents EXCEPT ![nextDocId] =
                       [clientId |-> c, category |-> category,
                        verificationStatus |-> "PENDING",
                        rejectionReason |-> "NULL", verifiedAt |-> NoTime]]
    /\ nextDocId' = nextDocId + 1
    /\ last' = [op |-> "addDocument", code |-> 201]
    /\ UNCHANGED <<clients, nextClientId, now, authVars, onbVars, activityLog, nextLogId,
                   bulk, webVars>>

OwnedDocument_AnyOwner(c, id) == id \in DocIds /\ documents[id] # Null

\* document.findFirst({ where: { id, clientId } })
OwnedDocument(c, id) ==
    id \in DocIds /\ documents[id] # Null /\ documents[id].clientId = c

deleteDocument(c, id) ==
    /\ Authenticated(c)
    /\ IF OwnedDocument(c, id)
       THEN /\ documents' = [documents EXCEPT ![id] = Null]
            /\ last' = [op |-> "deleteDocument", code |-> 200]
       ELSE /\ last' = [op |-> "deleteDocument", code |-> 404]
            /\ UNCHANGED documents
    /\ UNCHANGED <<clients, nextClientId, now, authVars, onbVars, nextDocId,
                   activityLog, nextLogId, bulk, webVars>>

(* ---------------------------------------------------------------------- *)
(* Admin review workflow (admin.controller.ts, admin.routes.ts)            *)
(* ---------------------------------------------------------------------- *)
IsAdmin_Any(a) == TRUE

\* requireAdmin
IsAdmin(a) == clients[a].role = "ADMIN"

StatusAllowed_WithPending(status) == status \in {"PENDING", "APPROVED", "REJECTED"}

\* updateDocumentStatusSchema: z.enum(['APPROVED', 'REJECTED'])
StatusAllowed(status) == status \in {"APPROVED", "REJECTED"}

logAdminActivity_Dedup(adminId, action, targetType, targetId, details) ==
    IF \E l \in activityLog : l.action = action /\ l.targetId = targetId
    THEN activityLog
    ELSE activityLog \cup {[id |-> nextLogId, adminId |-> adminId, action |-> action,
                            targetType |-> targetType, targetId |-> targetId,
                            details |-> details]}

logAdminActivity(adminId, action, targetType, targetId, details) ==
    activityLog \cup {[id |-> nextLogId, adminId |-> adminId, action |-> action,
                       targetType |-> targetType, targetId |-> targetId,
                       details |-> details]}

\* document.update: an undefined rejectionReason leaves the column as it is
UpdatedDocument(doc, status, rejectionReason) ==
    [doc EXCEPT !.verificationStatus = status,
                !.rejectionReason =
                    IF status = "REJECTED"
                    THEN (IF rejectionReason = "UNDEFINED" THEN doc.rejectionReason
                          ELSE rejectionReason)
                    ELSE "NULL",
                !.verifiedAt = now]

ApprovedDocument(doc) ==
    [doc EXCEPT !.verificationStatus = "APPROVED", !.verifiedAt = now]

updateDocumentStatus(a, id, status, rejectionReason) ==
    /\ Authenticated(a)
    /\ IF ~IsAdmin(a)
       THEN /\ last' = [op |-> "updateDocumentStatus", id |-> id,
                        status |-> status, code |-> 403]
            /\ UNCHANGED docVars
       ELSE IF ~StatusAllowed(status)
       THEN /\ last' = [op |-> "updateDocumentStatus", id |-> id,
                        status |-> status, code |-> 400]
            /\ UNCHANGED docVars
       ELSE IF id \notin DocIds \/ documents[id] = Null
       THEN /\ last' = [op |-> "updateDocumentStatus", id |-> id,
                        status |-> status, code |-> 404]
            /\ UNCHANGED docVars
       ELSE /\ nextLogId <= MaxLogs
            /\ documents' = [documents EXCEPT ![id] =
                               UpdatedDocument(@, status, rejectionReason)]
            /\ activityLog' = logAdminActivity(a,
                  IF status = "APPROVED" THEN "APPROVE_DOCUMENT" ELSE "REJECT_DOCUMENT",
                  "DOCUMENT", id,
                  [clientId |-> documents[id].clientId,
                   rejectionReason |-> IF status = "REJECTED" THEN rejectionReason
                                       ELSE "UNDEFINED"])
            /\ nextLogId' = nextLogId + 1
            /\ last' = [op |-> "updateDocumentStatus", id |-> id,
                        status |-> status, code |-> 200]
            /\ UNCHANGED <<nextDocId, bulk, webVars>>
    /\ UNCHANGED <<clients, nextClientId, now, authVars, onbVars>>

PendingAmong_All(ids) == {d \in DocIds : d \in ids /\ documents[d] # Null}

\* document.findMany({ id: { in: documentIds }, verificationStatus: 'PENDING' })
PendingAmong(ids) ==
    {d \in DocIds : d \in ids /\ documents[d] # Null
                     /\ documents[d].verificationStatus = "PENDING"}

PendingOfClient_Any(clientId) ==
    {d \in DocIds : documents[d] # Null /\ documents[d].verificationStatus = "PENDING"}

\* document.findMany({ clientId, verificationStatus: 'PENDING' })
PendingOfClient(clientId) ==
    {d \in DocIds : documents[d] # Null /\ documents[d].clientId = clientId
                     /\ documents[d].verificationStatus = "PENDING"}

bulkApproveDocuments(a, documentIds) ==
    /\ Authenticated(a)
    /\ IF ~IsAdmin(a)
       THEN /\ last' = [op |-> "bulkApproveDocuments", code |-> 403]
            /\ UNCHANGED docVars
       ELSE IF documentIds = {} \/ PendingAmong(documentIds) = {}
       THEN /\ last' = [op |-> "bulkApproveDocuments", code |-> 400]
            /\ UNCHANGED docVars
       ELSE /\ nextLogId <= MaxLogs
            /\ documents' = [d \in DocIds |->
                               IF d \in PendingAmong(documentIds)
                               THEN ApprovedDocument(documents[d]) ELSE documents[d]]
            /\ activityLog' = logAdminActivity(a, "BULK_APPROVE", "DOCUMENT", "bulk",
                  [count |-> Cardinality(PendingAmong(documentIds)),
                   documentIds |-> PendingAmong(documentIds)])
            /\ nextLogId' = nextLogId + 1
            /\ last' = [op |-> "bulkApproveDocuments", code |-> 200,
                        approvedCount |-> Cardinality(PendingAmong(documentIds))]
            /\ UNCHANGED <<nextDocId, bulk, webVars>>
    /\ UNCHANGED <<clients, nextClientId, now, authVars, onbVars>>

approveAllForClient(a, clientId) ==
    /\ Authenticated(a)
    /\ IF ~IsAdmin(a)
       THEN /\ last' = [op |-> "approveAllForClient", code |-> 403]
            /\ UNCHANGED docVars
       ELSE IF clients[clientId] = Null
       THEN /\ last' = [op |-> "approveAllForClient", code |-> 404]
            /\ UNCHANGED docVars
       ELSE IF PendingOfClient(clientId) = {}
       THEN /\ last' = [op |-> "approveAllForClient", code |-> 400]
            /\ UNCHANGED docVars
       ELSE /\ nextLogId <= MaxLogs
            /\ documents' = [d \in DocIds |->
                               IF d \in PendingOfClient(clientId)
                               THEN ApprovedDocument(documents[d]) ELSE documents[d]]
            /\ activityLog' = logAdminActivity(a, "APPROVE_ALL_FOR_CLIENT", "CLIENT",
                  clientId,
                  [clientEmail |-> clients[clientId].email,
                   count |-> Cardinality(PendingOfClient(clientId))])
            /\ nextLogId' = nextLogId + 1
            /\ last' = [op |-> "approveAllForClient", code |-> 200,
                        approvedCount |-> Cardinality(PendingOfClient(clientId))]
            /\ UNCHANGED <<nextDocId, bulk, webVars>>
    /\ UNCHANGED <<clients, nextClientId, now, authVars, onbVars>>

(* ---------------------------------------------------------------------- *)
(* DELETE /profile/account: the foreign keys cascade (ON DELETE CASCADE)   *)
(* ---------------------------------------------------------------------- *)
CascadeDelete_Restrict(rows, c) == rows

\* FOREIGN KEY ("clientId") REFERENCES "clients"("id") ON DELETE CASCADE
CascadeDelete(rows, c) == {r \in rows : r.clientId # c}

deleteAccount(c) ==
    /\ Authenticated(c)
    /\ clients' = [clients EXCEPT ![c] = Null]
    /\ refreshTokens' = CascadeDelete(refreshTokens, c)
    /\ verificationTokens' = CascadeDelete(verificationTokens, c)
    /\ resetTokens' = CascadeDelete(resetTokens, c)
    /\ progress' = [progress EXCEPT ![c] = Null]
    /\ stepProgress' = [stepProgress EXCEPT ![c] = NoStepRows]
    /\ documents' = [d \in DocIds |->
                       IF documents[d] # Null /\ documents[d].clientId = c
                       THEN Null ELSE documents[d]]
    /\ activityLog' = {l \in activityLog : l.adminId # c}
    /\ last' = [op |-> "deleteAccount", code |-> 200]
    /\ UNCHANGED <<nextClientId, now, nextRowId, nextTokenId, req, nextDocId, nextLogId,
                   fp, rp, bulk, webVars>>

(* scripts/make-admin.ts *)
makeAdmin(email) ==
    /\ \E c \in ClientByEmail(email) :
          /\ clients[c].role # "ADMIN"
          /\ clients' = [clients EXCEPT ![c].role = "ADMIN"]
    /\ last' = NoRequest
    /\ UNCHANGED <<nextClientId, now, authVars, onbVars, docVars>>

(* ---------------------------------------------------------------------- *)
(* Specification of the document registry and the admin workflow           *)
(* ---------------------------------------------------------------------- *)
AdminEmails == {"admin@b.com", "a@b.com"}
StatusInputs == {"APPROVED", "REJECTED", "PENDING"}
ReasonInputs == {"UNDEFINED", "blurry"}

NextAdmin ==
    \/ \E e \in AdminEmails : signup(e, "Secure123", "A", "B")
    \/ makeAdmin("admin@b.com")
    \/ \E c \in ClientIds : addDocument(c, "ID_DOCUMENT")
    \/ \E c \in ClientIds, d \in DocIds : deleteDocument(c, d)
    \/ \E a \in ClientIds, d \in DocIds, st \in StatusInputs, r \in ReasonInputs :
            updateDocumentStatus(a, d, st, r)
    \/ \E a \in ClientIds, ids \in SUBSET DocIds : bulkApproveDocuments(a, ids)
    \/ \E a \in ClientIds, c \in ClientIds : approveAllForClient(a, c)
    \/ \E c \in ClientIds : deleteAccount(c)

SpecAdmin == Init /\ [][NextAdmin]_vars

\* C9 as stated: the audit log is append-only, no step of the system removes
\* or changes an entry once it has been written.
C9_AuditLogAppendOnly == [][activityLog \subseteq activityLog']_vars

\* C10: a document whose verificationStatus is APPROVED or REJECTED is never
\* PENDING again, whatever operation is applied to it.
C10_NeverBackToPending ==
    [][\A d \in DocIds :
         (/\ documents[d] # Null
          /\ documents[d].verificationStatus # "PENDING"
          /\ documents'[d] # Null)
            => documents'[d].verificationStatus # "PENDING"]_vars

C10_Witness ==
    /\ last.op = "updateDocumentStatus"
    /\ last.status = "PENDING"
    /\ last.code = 400
    /\ last.id \in DocIds
    /\ documents[last.id] # Null
    /\ documents[last.id].verificationStatus = "REJECTED"

\* C20: deleteDocument(client, id) deletes the document, and no other, when
\* it exists and is owned by the requesting client; for a missing id or a
\* document of another client it fails with NotFound and the set of
\* documents is unchanged.
C20_DeleteOwnDocumentOnly ==
    [][\A c \in ClientIds, id \in DocIds :
         deleteDocument(c, id)
            => IF documents[id] # Null /\ documents[id].clientId = c
               THEN /\ last'.code = 200
                    /\ documents'[id] = Null
                    /\ \A d \in DocIds \ {id} : documents'[d] = documents[d]
               ELSE /\ last'.code = 404
                    /\ documents' = documents]_vars

C20_Witness ==
    /\ last.op = "deleteDocument"
    /\ last.code = 404
    /\ \A d \in DocIds : documents[d] # Null

\* the step appends exactly one audit entry, of the given action
OneEntryAppended(action) ==
    /\ activityLog \subseteq activityLog'
    /\ Cardinality(activityLog' \ activityLog) = 1
    /\ \A l \in activityLog' \ activityLog : l.action = action

\* C11: setStatus(doc, APPROVED) by an admin on an existing document succeeds
\* whatever the document's status was (APPROVED included), leaves the
\* document APPROVED and appends exactly one APPROVE_DOCUMENT audit entry,
\* so that two calls in a row leave two entries.
C11_ApproveTwice ==
    [][\A a \in ClientIds, d \in DocIds, r \in ReasonInputs :
         (/\ updateDocumentStatus(a, d, "APPROVED", r)
          /\ IsAdmin(a)
          /\ documents[d] # Null)
            => /\ last'.code = 200
               /\ documents'[d].verificationStatus = "APPROVED"
               /\ OneEntryAppended("APPROVE_DOCUMENT")
               /\ \A l \in activityLog' \ activityLog :
                     l.targetId = d /\ l.adminId = a]_vars

C11_Witness ==
    /\ last.op = "updateDocumentStatus"
    /\ last.code = 200
    /\ last.status = "APPROVED"
    /\ documents[last.id].verificationStatus = "APPROVED"
    /\ Cardinality({l \in activityLog :
                       l.action = "APPROVE_DOCUMENT" /\ l.targetId = last.id}) = 2

\* C12: bulkApprove(ids) by an admin approves exactly the documents among ids
\* that are PENDING, leaves every other document unchanged, reports their
\* number as approvedCount and appends exactly one BULK_APPROVE entry; when
\* none of the ids is PENDING it fails with BadRequest, changes no document
\* and writes no audit entry.
C12_BulkApproveExact ==
    [][\A a \in ClientIds, ids \in SUBSET DocIds :
         (bulkApproveDocuments(a, ids) /\ IsAdmin(a))
            => LET pending == {d \in ids : /\ documents[d] # Null
                                           /\ documents[d].verificationStatus = "PENDING"}
               IN IF pending = {}
                  THEN /\ last'.code = 400
                       /\ documents' = documents
                       /\ activityLog' = activityLog
                  ELSE /\ last'.code = 200
                       /\ last'.approvedCount = Cardinality(pending)
                       /\ \A d \in pending :
                             documents'[d].verificationStatus = "APPROVED"
                       /\ \A d \in DocIds \ pending : documents'[d] = documents[d]
                       /\ OneEntryAppended("BULK_APPROVE")]_vars

C12_Witness ==
    /\ last.op = "bulkApproveDocuments"
    /\ last.code = 200
    /\ last.approvedCount = 1
    /\ \E d \in DocIds : /\ documents[d] # Null
                          /\ documents[d].verificationStatus = "REJECTED"
    /\ \E l \in activityLog : l.action = "BULK_APPROVE" /\ l.details.count = 1

\* C13: approveAllForClient(c) by an admin fails with NotFound when client c
\* does not exist and with BadRequest when c has no PENDING document, and
\* changes nothing in either case; otherwise it approves every PENDING
\* document of c, leaves the documents of every other client unchanged and
\* writes one audit entry.
C13_ApproveAllScoped ==
    [][\A a \in ClientIds, c \in ClientIds :
         (approveAllForClient(a, c) /\ IsAdmin(a))
            => LET pending == {d \in DocIds : /\ documents[d] # Null
                                              /\ documents[d].clientId = c
                                              /\ documents[d].verificationStatus = "PENDING"}
               IN IF clients[c] = Null
                  THEN /\ last'.code = 404
                       /\ documents' = documents
                       /\ activityLog' = activityLog
                  ELSE IF pending = {}
                  THEN /\ last'.code = 400
                       /\ documents' = documents
                       /\ activityLog' = activityLog
                  ELSE /\ last'.code = 200
                       /\ \A d \in pending :
                             documents'[d].verificationStatus = "APPROVED"
                       /\ \A d \in DocIds \ pending : documents'[d] = documents[d]
                       /\ OneEntryAppended("APPROVE_ALL_FOR_CLIENT")]_vars

C13_Witness ==
    /\ last.op = "approveAllForClient"
    /\ last.code = 200
    /\ \E d \in DocIds, e \in DocIds :
          /\ documents[d] # Null /\ documents[e] # Null
          /\ documents[d].clientId # documents[e].clientId
          /\ documents[d].verificationStatus = "APPROVED"
          /\ documents[e].verificationStatus = "PENDING"

(* ---------------------------------------------------------------------- *)
(* The bulk operations as the database sees them: the selection of the     *)
(* pending documents and the updateMany are separate awaits, and another   *)
(* admin's request can run between them                                    *)
(* ---------------------------------------------------------------------- *)
\* bulkApproveDocuments up to document.findMany
bulkSelect(p, a, documentIds) ==
    /\ bulk[p].pc = "idle"
    /\ Authenticated(a)
    /\ IF ~IsAdmin(a)
       THEN /\ last' = [op |-> "bulkApproveDocuments", code |-> 403]
            /\ UNCHANGED bulk
       ELSE IF documentIds = {} \/ PendingAmong(documentIds) = {}
       THEN /\ last' = [op |-> "bulkApproveDocuments", code |-> 400]
            /\ UNCHANGED bulk
       ELSE /\ bulk' = [bulk EXCEPT ![p] =
                          [pc |-> "selected", op |-> "bulkApproveDocuments",
                           adminId |-> a, documents |-> PendingAmong(documentIds)]]
            /\ last' = NoRequest
    /\ UNCHANGED <<clients, nextClientId, now, authVars, onbVars, documents, nextDocId,
                   activityLog, nextLogId, webVars>>

\* document.updateMany({ where: { id: { in: documents.map(d => d.id) } } }),
\* then the audit entry and the response
bulkUpdate(p) ==
    /\ bulk[p].pc = "selected"
    /\ bulk[p].op = "bulkApproveDocuments"
    /\ nextLogId <= MaxLogs
    /\ documents' = [d \in DocIds |->
                       IF d \in bulk[p].documents /\ documents[d] # Null
                       THEN ApprovedDocument(documents[d]) ELSE documents[d]]
    /\ activityLog' = logAdminActivity(bulk[p].adminId, "BULK_APPROVE", "DOCUMENT", "bulk",
          [count |-> Cardinality(bulk[p].documents), documentIds |-> bulk[p].documents])
    /\ nextLogId' = nextLogId + 1
    /\ last' = [op |-> "bulkApproveDocuments", code |-> 200,
                approvedCount |-> Cardinality(bulk[p].documents)]
    /\ bulk' = [bulk EXCEPT ![p] = Idle]
    /\ UNCHANGED <<clients, nextClientId, now, authVars, onbVars, nextDocId, webVars>>

\* approveAllForClient up to document.findMany
approveAllSelect(p, a, clientId) ==
    /\ bulk[p].pc = "idle"
    /\ Authenticated(a)
    /\ IF ~IsAdmin(a)
       THEN /\ last' = [op |-> "approveAllForClient", code |-> 403]
            /\ UNCHANGED bulk
       ELSE IF clients[clientId] = Null
       THEN /\ last' = [op |-> "approveAllForClient", code |-> 404]
            /\ UNCHANGED bulk
       ELSE IF PendingOfClient(clientId) = {}
       THEN /\ last' = [op |-> "approveAllForClient", code |-> 400]
            /\ UNCHANGED bulk
       ELSE /\ bulk' = [bulk EXCEPT ![p] =
                          [pc |-> "selected", op |-> "approveAllForClient",
                           adminId |-> a, clientId |-> clientId,
                           clientEmail |-> clients[clientId].email,
                           documents |-> PendingOfClient(clientId)]]
            /\ last' = NoRequest
    /\ UNCHANGED <<clients, nextClientId, now, authVars, onbVars, documents, nextDocId,
                   activityLog, nextLogId, webVars>>

\* document.updateMany({ where: { clientId, verificationStatus: 'PENDING' } }),
\* then the audit entry and the response, both with pendingDocs.length
approveAllUpdate(p) ==
    /\ bulk[p].pc = "selected"
    /\ bulk[p].op = "approveAllForClient"
    /\ nextLogId <= MaxLogs
    /\ documents' = [d \in DocIds |->
                       IF d \in PendingOfClient(bulk[p].clientId)
                       THEN ApprovedDocument(documents[d]) ELSE documents[d]]
    /\ activityLog' = logAdminActivity(bulk[p].adminId, "APPROVE_ALL_FOR_CLIENT", "CLIENT",
          bulk[p].clientId,
          [clientEmail |-> bulk[p].clientEmail,
           count |-> Cardinality(bulk[p].documents)])
    /\ nextLogId' = nextLogId + 1
    /\ last' = [op |-> "approveAllForClient", code |-> 200,
                approvedCount |-> Cardinality(bulk[p].documents)]
    /\ bulk' = [bulk EXCEPT ![p] = Idle]
    /\ UNCHANGED <<clients, nextClientId, now, authVars, onbVars, nextDocId, webVars>>

\* two admins at work: one sets the status of single documents while a bulk
\* operation of the other is between its selection and its update
NextReview ==
    \/ \E e \in AdminEmails : signup(e, "Secure123", "A", "B")
    \/ makeAdmin("admin@b.com")
    \/ \E c \in ClientIds : addDocument(c, "ID_DOCUMENT")
    \/ \E a \in ClientIds, d \in DocIds, st \in {"APPROVED", "REJECTED"},
          r \in ReasonInputs : updateDocumentStatus(a, d, st, r)
    \/ \E a \in ClientIds, ids \in SUBSET DocIds : bulkSelect("r1", a, ids)
    \/ bulkUpdate("r1")
    \/ \E a \in ClientIds, c \in ClientIds : approveAllSelect("r1", a, c)
    \/ approveAllUpdate("r1")

SpecReview == Init /\ [][NextReview]_vars

\* C26 as stated: in every reachable state, the states reached by
\* interleaving setStatus with bulk approve or approve-all included, a
\* document has a rejectionReason only if its verificationStatus is REJECTED.
C26_ReasonOnlyWhenRejected ==
    \A d \in DocIds :
        (documents[d] # Null /\ documents[d].rejectionReason # "NULL")
            => documents[d].verificationStatus = "REJECTED"

\* the documents whose verificationStatus the step changes
StatusChanged ==
    {d \in DocIds : /\ documents[d] # Null
                    /\ documents'[d] # Null
                    /\ documents'[d].verificationStatus # documents[d].verificationStatus}

\* C30 as stated: the update of bulk approve and of approve-all changes only
\* documents that are PENDING at the moment of the update, so a document
\* that another admin rejected after the selection is not turned into
\* APPROVED, and the reported approvedCount is the number of documents the
\* update changed.
C30_BulkChangesOnlyPending ==
    [][\A p \in Procs :
         (bulkUpdate(p) \/ approveAllUpdate(p))
            => /\ \A d \in StatusChanged : documents[d].verificationStatus = "PENDING"
               /\ last'.approvedCount = Cardinality(StatusChanged)]_vars

\* Supporting fact for C30: the documents approve-all changes were PENDING
\* at the moment of its update.
C30_ApproveAllTurnsPendingOnly ==
    [][\A p \in Procs :
         approveAllUpdate(p)
            => \A d \in StatusChanged : documents[d].verificationStatus = "PENDING"]_vars

(* ---------------------------------------------------------------------- *)
(* Token service: login, refresh rotation, logout (auth.controller.ts)     *)
(* ---------------------------------------------------------------------- *)
\* jwt.verify with the refresh secret: the signature must be the server's
\* refresh signature and the token must not be past its exp claim.
verifyRefreshToken(token) ==
    IF SignedWith(token) # "refresh" THEN "JsonWebTokenError"
    ELSE IF now >= token.iat + RefreshExpiresIn THEN "TokenExpiredError"
    ELSE "ok"

StoredToken(token) == {r \in refreshTokens : r.token = token}

RefreshRow(token, clientId) ==
    [id |-> nextRowId, token |-> token, clientId |-> clientId,
     expiresAt |-> getRefreshTokenExpiry]

login(email, password) ==
    /\ IF ClientByEmail(email) = {}
       THEN /\ last' = [op |-> "login", email |-> email, code |-> 401]
            /\ UNCHANGED <<refreshTokens, nextRowId>>
       ELSE LET c == CHOOSE c \in ClientByEmail(email) : TRUE
                token == generateRefreshToken(c, email)
            IN IF ~comparePassword(password, clients[c].passwordHash)
               THEN /\ last' = [op |-> "login", email |-> email, code |-> 401]
                    /\ UNCHANGED <<refreshTokens, nextRowId>>
               ELSE IF StoredToken(token) # {}
               THEN \* unique index refresh_tokens_token_key: P2002
                    /\ last' = [op |-> "login", email |-> email, code |-> 409]
                    /\ UNCHANGED <<refreshTokens, nextRowId>>
               ELSE /\ nextRowId <= MaxRows
                    /\ refreshTokens' = refreshTokens \cup {RefreshRow(token, c)}
                    /\ nextRowId' = nextRowId + 1
                    /\ last' = [op |-> "login", email |-> email, code |-> 200,
                                refreshToken |-> token]
    /\ UNCHANGED <<clients, nextClientId, now, verificationTokens, nextTokenId, req,
                   onbVars, docVars, resetVars>>

\* refresh, first database step: verify the token and look its row up
refreshLookup(p, token) ==
    /\ req[p].pc \in {"idle", "done"}
    /\ IF verifyRefreshToken(token) # "ok" \/ token.type # "refresh"
       THEN /\ req' = [req EXCEPT ![p] = [pc |-> "done", token |-> token, row |-> Null,
                                          code |-> 401, newToken |-> Null]]
            /\ last' = [op |-> "refresh", proc |-> p, code |-> 401]
       ELSE IF StoredToken(token) = {}
       THEN /\ req' = [req EXCEPT ![p] = [pc |-> "done", token |-> token, row |-> Null,
                                          code |-> 401, newToken |-> Null]]
            /\ last' = [op |-> "refresh", proc |-> p, code |-> 401]
       ELSE LET row == CHOOSE r \in StoredToken(token) : TRUE
            IN /\ req' = [req EXCEPT ![p] = [pc |-> "found", token |-> token,
                                             row |-> row,
                                             expired |-> row.expiresAt < now]]
               /\ last' = NoRequest
    /\ UNCHANGED <<clients, nextClientId, now, refreshTokens, verificationTokens,
                   nextRowId, nextTokenId, onbVars, docVars, resetVars>>

\* prisma.refreshToken.delete({ where: { id } }) throws P2025 when the row is gone
DeleteFindsRow(row) == row \in refreshTokens

\* refresh, second database step: delete the row that was found
refreshDelete(p) ==
    /\ req[p].pc = "found"
    /\ IF ~DeleteFindsRow(req[p].row)
       THEN /\ req' = [req EXCEPT ![p] = [pc |-> "done", token |-> req[p].token,
                                          row |-> req[p].row, code |-> 404,
                                          newToken |-> Null]]
            /\ last' = [op |-> "refresh", proc |-> p, code |-> 404]
            /\ UNCHANGED refreshTokens
       ELSE /\ refreshTokens' = refreshTokens \ {req[p].row}
            /\ IF req[p].expired
               THEN /\ req' = [req EXCEPT ![p] = [pc |-> "done", token |-> req[p].token,
                                                  row |-> req[p].row, code |-> 401,
                                                  newToken |-> Null]]
                    /\ last' = [op |-> "refresh", proc |-> p, code |-> 401]
               ELSE /\ req' = [req EXCEPT ![p] = [pc |-> "deleted",
                                                  token |-> req[p].token,
                                                  row |-> req[p].row]]
                    /\ last' = NoRequest
    /\ UNCHANGED <<clients, nextClientId, now, verificationTokens, nextRowId,
                   nextTokenId, onbVars, docVars, resetVars>>

\* refresh, third database step: sign the new pair and store the refresh token
refreshCreate(p) ==
    /\ req[p].pc = "deleted"
    /\ LET c == req[p].row.clientId
           token == generateRefreshToken(c, req[p].token.email)
       IN IF StoredToken(token) # {}
          THEN \* unique index refresh_tokens_token_key: P2002
               /\ req' = [req EXCEPT ![p] = [pc |-> "done", token |-> req[p].token,
                                             row |-> req[p].row, code |-> 409,
                                             newToken |-> Null]]
               /\ last' = [op |-> "refresh", proc |-> p, code |-> 409]
               /\ UNCHANGED <<refreshTokens, nextRowId>>
          ELSE IF clients[c] = Null
          THEN \* refresh_tokens_clientId_fkey
               /\ req' = [req EXCEPT ![p] = [pc |-> "done", token |-> req[p].token,
                                             row |-> req[p].row, code |-> 500,
                                             newToken |-> Null]]
               /\ last' = [op |-> "refresh", proc |-> p, code |-> 500]
               /\ UNCHANGED <<refreshTokens, nextRowId>>
          ELSE /\ nextRowId <= MaxRows
               /\ refreshTokens' = refreshTokens \cup {RefreshRow(token, c)}
               /\ nextRowId' = nextRowId + 1
               /\ req' = [req EXCEPT ![p] = [pc |-> "done", token |-> req[p].token,
                                             row |-> req[p].row, code |-> 200,
                                             newToken |-> token]]
               /\ last' = [op |-> "refresh", proc |-> p, code |-> 200]
    /\ UNCHANGED <<clients, nextClientId, now, verificationTokens, nextTokenId,
                   onbVars, docVars, resetVars>>

\* logout: optionalAuth attaches the client c when a valid access token came along
logout(token, c) ==
    /\ c # Anonymous => Authenticated(c)
    /\ refreshTokens' = {r \in refreshTokens :
                            /\ r.token # token
                            /\ c # Anonymous => r.clientId # c}
    /\ last' = [op |-> "logout", code |-> 200,
                revoked |-> {r.token : r \in refreshTokens \ refreshTokens'}]
    /\ UNCHANGED <<clients, nextClientId, now, verificationTokens, nextRowId,
                   nextTokenId, req, onbVars, docVars, resetVars>>

(* ---------------------------------------------------------------------- *)
(* Specification of the token service                                      *)
(* ---------------------------------------------------------------------- *)
AuthEmails == {"a@b.com"}
PasswordInputs == {"Secure123", "Wrong456"}
Garbage == [garbage |-> TRUE]

TokenInputs ==
    {[clientId |-> c, email |-> e, type |-> "refresh", iat |-> t] :
        c \in ClientIds, e \in AuthEmails, t \in 0..MaxTime}
    \cup {Garbage}

NextAuth ==
    \/ Tick
    \/ \E e \in AuthEmails : signup(e, "Secure123", "A", "B")
    \/ \E e \in AuthEmails, pw \in PasswordInputs : login(e, pw)
    \/ \E p \in Procs, t \in TokenInputs : refreshLookup(p, t)
    \/ \E p \in Procs : refreshDelete(p)
    \/ \E p \in Procs : refreshCreate(p)
    \/ \E t \in TokenInputs, c \in ClientIds \cup {Anonymous} : logout(t, c)

SpecAuth == Init /\ [][NextAuth]_vars

(* ---------------------------------------------------------------------- *)
(* Properties of the refresh rotation                                      *)
(* ---------------------------------------------------------------------- *)
\* C1 as stated: a refresh(T) that succeeds has deleted T's row and returns
\* a refresh token T' different from T, so that T is no longer stored and
\* any later refresh(T) finds no row and fails.
C1_RefreshRotates ==
    [][\A p \in Procs :
         (req[p].pc = "deleted" /\ req'[p].pc = "done" /\ req'[p].code = 200)
            => /\ req'[p].newToken # req'[p].token
               /\ \A r \in refreshTokens' : r.token # req'[p].token]_vars

\* C2 as stated: of two refresh requests that present the same refresh
\* token T, in whatever order their database steps run, at most one issues
\* and persists a new token pair.
C2_AtMostOneIssues ==
    \A p \in Procs, q \in Procs :
        (p # q /\ req[p].pc = "done" /\ req[q].pc = "done"
               /\ req[p].token = req[q].token)
            => ~(req[p].code = 200 /\ req[q].code = 200)

HasRow(p) == req[p].pc \in {"found", "deleted", "done"} /\ req[p].row # Null

PastDelete(p) ==
    \/ req[p].pc = "deleted"
    \/ req[p].pc = "done" /\ req[p].code \in {200, 409, 500}

\* Supporting fact for C2: of two refresh requests that found the same
\* stored row, at most one gets past the delete, and a request that ends in
\* failure persists no token and returns none.
RaceOnRowHasOneWinner ==
    [][\A p \in Procs, q \in Procs :
         p # q =>
           /\ (HasRow(p)' /\ HasRow(q)' /\ req'[p].row.id = req'[q].row.id)
                 => ~(PastDelete(p)' /\ PastDelete(q)')
           /\ (req[q].pc # "done" /\ req'[q].pc = "done" /\ req'[q].code # 200)
                 => (refreshTokens' \subseteq refreshTokens /\ req'[q].newToken = Null)]_vars

\* the frame of login and refresh on the stored refresh tokens: a successful
\* login adds one row and removes none, and a step of a refresh request
\* removes no row but the one of the token it presented
LoginRefreshFrame ==
    /\ (last'.op = "login" /\ last'.code = 200)
          => /\ refreshTokens \subseteq refreshTokens'
             /\ Cardinality(refreshTokens' \ refreshTokens) = 1
    /\ \A p \in Procs :
          (refreshDelete(p) \/ refreshCreate(p))
             => \A r \in refreshTokens : r.token # req[p].token => r \in refreshTokens'

\* C22 as stated: a successful login adds a refresh token and removes none,
\* a successful refresh(T) removes only T, and every other stored refresh
\* token of that client can still be refreshed afterwards: once refresh(T)
\* has succeeded, a refresh of another stored, unexpired token of the same
\* client succeeds.
C22_OtherTokensRefreshable ==
    [][/\ LoginRefreshFrame
       /\ \A p \in Procs, q \in Procs :
             (/\ p # q
              /\ req[p].pc = "done" /\ req[p].code = 200
              /\ req[q].pc = "deleted" /\ req'[q].pc = "done"
              /\ req[q].token # req[p].token
              /\ req[q].row.clientId = req[p].row.clientId)
                => req'[q].code = 200]_vars

\* Supporting fact for C22: the frame alone holds in every step.
C22_FrameOnly == [][LoginRefreshFrame]_vars

\* a refresh request that presents the token now gets past the verification
\* and the lookup of its row
Refreshable(token) ==
    /\ verifyRefreshToken(token) = "ok"
    /\ \E r \in StoredToken(token) : ~(r.expiresAt < now)

\* what a logout step leaves behind: it answers 200, the presented token
\* cannot be refreshed, and no token of the client of the access token is
\* stored
LogoutRevokes ==
    \A t \in TokenInputs, c \in ClientIds \cup {Anonymous} :
        logout(t, c) =>
            /\ last'.code = 200
            /\ ~Refreshable(t)'
            /\ c # Anonymous => \A r \in refreshTokens' : r.clientId # c

\* C23 as stated: logout always reports success; after it completes the
\* refresh token presented in its body can no longer be refreshed, and when
\* the request carried a valid access token no refresh token of that client
\* can be refreshed. Checked on the request that follows a logout: a token
\* that the logout has taken out of the store is not refreshable after it.
C23_LogoutRevokesForGood ==
    [][/\ LogoutRevokes
       /\ \A t \in TokenInputs :
             (last.op = "logout" /\ t \in last.revoked) => ~Refreshable(t)']_vars

\* Supporting fact for C23: the state right after logout is as claimed.
C23_RightAfterLogout == [][LogoutRevokes]_vars

(* ---------------------------------------------------------------------- *)
(* Password reset and email verification (auth.controller.ts)              *)
(* ---------------------------------------------------------------------- *)
ResetExpiresIn == 1

forgotPasswordUnknown_NotFound ==
    [code |-> 404, success |-> FALSE, message |-> "Client not found"]

\* the response to an email that belongs to no client
forgotPasswordUnknown ==
    [code |-> 200, success |-> TRUE,
     message |-> "If an account with that email exists, a password reset link has been sent."]

\* the response after the reset token was stored and the email handed over
forgotPasswordSent ==
    [code |-> 200, success |-> TRUE,
     message |-> "If an account with that email exists, a password reset link has been sent."]

ResetTokensOf(c) == {r \in resetTokens : r.clientId = c}

VerificationTokensOf(c) == {r \in verificationTokens : r.clientId = c}

\* forgotPassword, first database step: client.findUnique by email
forgotLookup(p, email) ==
    /\ fp[p].pc = "idle"
    /\ IF ClientByEmail(email) = {}
       THEN /\ last' = [op |-> "forgotPassword", email |-> email,
                        response |-> forgotPasswordUnknown]
            /\ UNCHANGED fp
       ELSE /\ fp' = [fp EXCEPT ![p] =
                        [pc |-> "found", email |-> email,
                         client |-> CHOOSE c \in ClientByEmail(email) : TRUE]]
            /\ last' = NoRequest
    /\ UNCHANGED <<clients, nextClientId, now, refreshTokens, verificationTokens,
                   nextRowId, nextTokenId, req, resetTokens, rp, onbVars, docVars>>

\* forgotPassword, second database step: passwordResetToken.deleteMany
forgotDelete(p) ==
    /\ fp[p].pc = "found"
    /\ resetTokens' = resetTokens \ ResetTokensOf(fp[p].client)
    /\ fp' = [fp EXCEPT ![p].pc = "deleted"]
    /\ last' = NoRequest
    /\ UNCHANGED <<clients, nextClientId, now, refreshTokens, verificationTokens,
                   nextRowId, nextTokenId, req, rp, onbVars, docVars>>

\* forgotPassword, third database step: passwordResetToken.create, then the
\* email service (which swallows its errors) and the response
forgotCreate(p) ==
    /\ fp[p].pc = "deleted"
    /\ IF clients[fp[p].client] = Null
       THEN \* password_reset_tokens_clientId_fkey
            /\ last' = [op |-> "forgotPassword", email |-> fp[p].email,
                        response |-> [code |-> 500, success |-> FALSE,
                                      message |-> "Internal server error"]]
            /\ UNCHANGED <<resetTokens, nextTokenId>>
       ELSE /\ nextTokenId <= MaxTokens
            /\ resetTokens' = resetTokens \cup
                  {[id |-> nextTokenId, token |-> randomBytes,
                    clientId |-> fp[p].client, expiresAt |-> now + ResetExpiresIn]}
            /\ nextTokenId' = nextTokenId + 1
            /\ last' = [op |-> "forgotPassword", email |-> fp[p].email,
                        response |-> forgotPasswordSent]
    /\ fp' = [fp EXCEPT ![p] = Idle]
    /\ UNCHANGED <<clients, nextClientId, now, refreshTokens, verificationTokens,
                   nextRowId, req, rp, onbVars, docVars>>

\* passwordResetToken.deleteMany({ where: { clientId } }) of resetPassword
ResetRowsOf(row) == ResetTokensOf(row.clientId)

\* the response of a resetPassword request
ResetDone(p, code) ==
    /\ rp' = [rp EXCEPT ![p] = [pc |-> "done", token |-> rp[p].token, code |-> code]]
    /\ last' = [op |-> "resetPassword", token |-> rp[p].token, code |-> code]

\* resetPassword, first database step: passwordResetToken.findUnique
resetLookup(p, token, password) ==
    /\ rp[p].pc \in {"idle", "done"}
    /\ IF \A r \in resetTokens : r.token # token
       THEN /\ rp' = [rp EXCEPT ![p] = [pc |-> "done", token |-> token, code |-> 400]]
            /\ last' = [op |-> "resetPassword", token |-> token, code |-> 400]
       ELSE LET resetToken == CHOOSE r \in resetTokens : r.token = token
            IN /\ rp' = [rp EXCEPT ![p] =
                           [pc |-> "found", token |-> token, password |-> password,
                            row |-> resetToken, expired |-> resetToken.expiresAt < now]]
               /\ last' = NoRequest
    /\ UNCHANGED <<clients, nextClientId, now, refreshTokens, verificationTokens,
                   nextRowId, nextTokenId, req, resetTokens, fp, onbVars, docVars>>

\* resetPassword, second database step: the delete of an expired token
\* (P2025 when the row is gone), or else the client.update of the password
\* (P2025 when the client is gone)
resetUpdate(p) ==
    /\ rp[p].pc = "found"
    /\ IF rp[p].expired
       THEN IF rp[p].row \notin resetTokens
            THEN /\ ResetDone(p, 404)
                 /\ UNCHANGED <<clients, resetTokens>>
            ELSE /\ resetTokens' = resetTokens \ {rp[p].row}
                 /\ ResetDone(p, 400)
                 /\ UNCHANGED clients
       ELSE IF clients[rp[p].row.clientId] = Null
            THEN /\ ResetDone(p, 404)
                 /\ UNCHANGED <<clients, resetTokens>>
            ELSE /\ clients' = [clients EXCEPT ![rp[p].row.clientId].passwordHash =
                                  hashPassword(rp[p].password)]
                 /\ rp' = [rp EXCEPT ![p].pc = "updated"]
                 /\ last' = NoRequest
                 /\ UNCHANGED resetTokens
    /\ UNCHANGED <<nextClientId, now, refreshTokens, verificationTokens, nextRowId,
                   nextTokenId, req, fp, onbVars, docVars>>

\* resetPassword, third database step: passwordResetToken.deleteMany
resetConsume(p) ==
    /\ rp[p].pc = "updated"
    /\ resetTokens' = resetTokens \ ResetRowsOf(rp[p].row)
    /\ rp' = [rp EXCEPT ![p].pc = "consumed"]
    /\ last' = NoRequest
    /\ UNCHANGED <<clients, nextClientId, now, refreshTokens, verificationTokens,
                   nextRowId, nextTokenId, req, fp, onbVars, docVars>>

\* resetPassword, fourth database step: refreshToken.deleteMany, then the response
resetLogoutAll(p) ==
    /\ rp[p].pc = "consumed"
    /\ refreshTokens' = {r \in refreshTokens : r.clientId # rp[p].row.clientId}
    /\ ResetDone(p, 200)
    /\ UNCHANGED <<clients, nextClientId, now, verificationTokens, nextRowId,
                   nextTokenId, req, resetTokens, fp, onbVars, docVars>>

sendVerificationEmail(c) ==
    /\ Authenticated(c)
    /\ IF clients[c].emailVerified
       THEN /\ last' = [op |-> "sendVerificationEmail", code |-> 400]
            /\ UNCHANGED <<verificationTokens, nextTokenId>>
       ELSE /\ nextTokenId <= MaxTokens
            /\ verificationTokens' = (verificationTokens \ VerificationTokensOf(c)) \cup
                  {[id |-> nextTokenId, token |-> randomBytes, clientId |-> c,
                    expiresAt |-> now + VerificationExpiresIn]}
            /\ nextTokenId' = nextTokenId + 1
            /\ last' = [op |-> "sendVerificationEmail", code |-> 200]
    /\ UNCHANGED <<clients, nextClientId, now, refreshTokens, nextRowId, req, resetVars,
                   onbVars, docVars>>

verifyEmail(token) ==
    /\ IF \A r \in verificationTokens : r.token # token
       THEN /\ last' = [op |-> "verifyEmail", token |-> token, code |-> 400]
            /\ UNCHANGED <<clients, verificationTokens>>
       ELSE LET verificationToken == CHOOSE r \in verificationTokens : r.token = token
            IN IF verificationToken.expiresAt < now
               THEN /\ verificationTokens' = verificationTokens \ {verificationToken}
                    /\ last' = [op |-> "verifyEmail", token |-> token, code |-> 400]
                    /\ UNCHANGED clients
               ELSE /\ clients' = [clients EXCEPT
                                     ![verificationToken.clientId].emailVerified = TRUE]
                    /\ verificationTokens' =
                          verificationTokens \ VerificationTokensOf(verificationToken.clientId)
                    /\ last' = [op |-> "verifyEmail", token |-> token, code |-> 200]
    /\ UNCHANGED <<nextClientId, now, refreshTokens, nextRowId, nextTokenId, req,
                   resetVars, onbVars, docVars>>

(* ---------------------------------------------------------------------- *)
(* Specification of the password reset and the email verification          *)
(* ---------------------------------------------------------------------- *)
ResetEmails == {"a@b.com", "nobody@b.com"}
NewPasswords == {"NewPass789"}
OpaqueTokens == {[random |-> k] : k \in 1..MaxTokens}

NextReset ==
    \/ Tick
    \/ signup("a@b.com", "Secure123", "A", "B")
    \/ \E p \in Procs, e \in ResetEmails : forgotLookup(p, e)
    \/ \E p \in Procs : forgotDelete(p)
    \/ \E p \in Procs : forgotCreate(p)
    \/ \E t \in OpaqueTokens, pw \in NewPasswords : resetLookup("r1", t, pw)
    \/ resetUpdate("r1")
    \/ resetConsume("r1")
    \/ resetLogoutAll("r1")
    \/ \E c \in ClientIds : sendVerificationEmail(c)
    \/ \E t \in OpaqueTokens : verifyEmail(t)

SpecReset == Init /\ [][NextReset]_vars

\* the use of reset tokens: one forgotPassword at a time, two resetPassword
\* requests that can be in flight together
NextResetUse ==
    \/ Tick
    \/ signup("a@b.com", "Secure123", "A", "B")
    \/ forgotLookup("r1", "a@b.com")
    \/ forgotDelete("r1")
    \/ forgotCreate("r1")
    \/ \E p \in Procs, t \in OpaqueTokens, pw \in NewPasswords : resetLookup(p, t, pw)
    \/ \E p \in Procs : resetUpdate(p)
    \/ \E p \in Procs : resetConsume(p)
    \/ \E p \in Procs : resetLogoutAll(p)

SpecResetUse == Init /\ [][NextResetUse]_vars

C16_ResetTokenSingleUse ==
    \A p \in Procs, q \in Procs :
        (p # q /\ rp[p].pc = "done" /\ rp[q].pc = "done"
               /\ rp[p].token = rp[q].token /\ rp[p].code = 200)
            => rp[q].code = 400

\* C17 as stated: in every reachable state each client owns at most one
\* password-reset token and at most one email-verification token.
C17_OneTokenPerClient ==
    \A c \in ClientIds :
        /\ Cardinality(ResetTokensOf(c)) <= 1
        /\ Cardinality(VerificationTokensOf(c)) <= 1

(* ---------------------------------------------------------------------- *)
(* Specification of the account deletion: clients with step rows,          *)
(* documents and refresh tokens, one refresh request in flight             *)
(* ---------------------------------------------------------------------- *)
NextAccount ==
    \/ \E e \in AdminEmails : signup(e, "Secure123", "A", "B")
    \/ \E c \in ClientIds : saveStepData(c, 1, Null)
    \/ \E c \in ClientIds : addDocument(c, "ID_DOCUMENT")
    \/ \E t \in TokenInputs : refreshLookup("r1", t)
    \/ refreshDelete("r1")
    \/ refreshCreate("r1")
    \/ \E c \in ClientIds : deleteAccount(c)

SpecAccount == Init /\ [][NextAccount]_vars

\* no row of a dependent table refers to a client that does not exist
NoOrphanRows ==
    \A c \in ClientIds :
        clients[c] = Null =>
            /\ \A r \in refreshTokens : r.clientId # c
            /\ progress[c] = Null
            /\ \A n \in Catalog : stepProgress[c][n] = Null
            /\ \A d \in DocIds : documents[d] # Null => documents[d].clientId # c

\* C14: deleting a client leaves no RefreshToken, OnboardingProgress,
\* StepProgress or Document row owned by it and leaves the rows of the other
\* clients as they were, and no later step brings a row of a deleted client
\* back.
C14_CascadeOnDelete ==
    [][/\ \A c \in ClientIds :
            deleteAccount(c) =>
                /\ clients'[c] = Null
                /\ refreshTokens' = {r \in refreshTokens : r.clientId # c}
                /\ \A o \in ClientIds \ {c} :
                      progress'[o] = progress[o] /\ stepProgress'[o] = stepProgress[o]
                /\ \A d \in DocIds :
                      (documents[d] # Null /\ documents[d].clientId # c)
                         => documents'[d] = documents[d]
       /\ NoOrphanRows']_vars

C14_Witness ==
    /\ last.op = "deleteAccount"
    /\ \E c \in ClientIds, o \in ClientIds :
          /\ c < nextClientId
          /\ clients[c] = Null
          /\ clients[o] # Null
          /\ stepProgress[o][1] # Null
          /\ \E r \in refreshTokens : r.clientId = o
          /\ \E d \in DocIds : documents[d] # Null /\ documents[d].clientId = o
          /\ \E d \in DocIds : d < nextDocId /\ documents[d] = Null

\* C21: a successful signup creates the client together with its
\* OnboardingProgress row, with currentStep 1 and status PENDING, and in no
\* reachable state does a client exist without its progress row.
C21_ProgressRowFromSignup ==
    [][/\ (last'.op = "signup" /\ last'.code = 201)
            => /\ clients[last'.client] = Null
               /\ clients'[last'.client] # Null
               /\ progress'[last'.client] # Null
               /\ progress'[last'.client].currentStep = 1
               /\ progress'[last'.client].status = "PENDING"
       /\ \A c \in ClientIds : clients'[c] # Null => progress'[c] # Null]_vars

C21_Witness ==
    /\ last.op = "signup"
    /\ last.code = 201
    /\ progress[last.client].currentStep = 1
    /\ progress[last.client].status = "PENDING"
    /\ \E c \in ClientIds : c < nextClientId /\ clients[c] = Null /\ progress[c] = Null

(* ---------------------------------------------------------------------- *)
(* Access control: authenticate, requireAdmin, errorHandler                *)
(* (middleware/auth.ts, middleware/errorHandler.ts)                        *)
(* ---------------------------------------------------------------------- *)
AccessExpiresIn == 1

verifyAccessToken_IgnoreExpiry(token) ==
    IF SignedWith(token) # "access" THEN "JsonWebTokenError" ELSE "ok"

\* jwt.verify(token, config.jwt.accessSecret)
verifyAccessToken(token) ==
    IF SignedWith(token) # "access" THEN "JsonWebTokenError"
    ELSE IF now >= token.iat + AccessExpiresIn THEN "TokenExpiredError"
    ELSE "ok"

\* the status the error handler answers with
errorHandler(err) ==
    IF err \in {"No token provided", "Invalid token type", "Client not found"} THEN 401
    ELSE IF err = "Admin access required" THEN 403
    ELSE IF err = "JsonWebTokenError" THEN 401
    ELSE IF err = "TokenExpiredError" THEN 401
    ELSE 500

authenticate(authHeader) ==
    IF authHeader.scheme # "Bearer"
    THEN [error |-> "No token provided", client |-> Anonymous]
    ELSE IF verifyAccessToken(authHeader.token) # "ok"
    THEN [error |-> verifyAccessToken(authHeader.token), client |-> Anonymous]
    ELSE IF authHeader.token.type # "access"
    THEN [error |-> "Invalid token type", client |-> Anonymous]
    ELSE IF clients[authHeader.token.clientId] = Null
    THEN [error |-> "Client not found", client |-> Anonymous]
    ELSE [error |-> "none", client |-> authHeader.token.clientId]

\* next(error) of authenticate: the handler is skipped
Unauthorized(authHeader) ==
    /\ authenticate(authHeader).error # "none"
    /\ last' = [op |-> "authenticate",
                code |-> errorHandler(authenticate(authHeader).error),
                error |-> authenticate(authHeader).error]
    /\ UNCHANGED <<clients, nextClientId, now, authVars, onbVars, docVars>>

\* req.client of a request that passed authenticate
ReqClient(authHeader) == authenticate(authHeader).client

\* the read-only handlers of the admin router, behind requireAdmin
AdminRead(a, op) ==
    /\ Authenticated(a)
    /\ last' = [op |-> op,
                code |-> IF IsAdmin(a) THEN 200 ELSE errorHandler("Admin access required")]
    /\ UNCHANGED <<clients, nextClientId, now, authVars, onbVars, docVars>>

getStats(a) == AdminRead(a, "getStats")

getActivityLog(a) == AdminRead(a, "getActivityLog")

getDocuments(a) == AdminRead(a, "getDocuments")

getClients(a) == AdminRead(a, "getClients")

\* a request to POST /documents
DocumentRequest(authHeader) ==
    IF authenticate(authHeader).error # "none" THEN Unauthorized(authHeader)
    ELSE addDocument(ReqClient(authHeader), "ID_DOCUMENT")

\* a request to DELETE /profile/account
ProfileRequest(authHeader) ==
    IF authenticate(authHeader).error # "none" THEN Unauthorized(authHeader)
    ELSE deleteAccount(ReqClient(authHeader))

\* requests to the read-only routes of the admin router
AdminReadRequest(authHeader) ==
    IF authenticate(authHeader).error # "none" THEN Unauthorized(authHeader)
    ELSE \/ getStats(ReqClient(authHeader))
         \/ getActivityLog(ReqClient(authHeader))
         \/ getDocuments(ReqClient(authHeader))
         \/ getClients(ReqClient(authHeader))

\* requests to the routes of the admin router that change documents
AdminWriteRequest(authHeader) ==
    IF authenticate(authHeader).error # "none" THEN Unauthorized(authHeader)
    ELSE \/ \E d \in DocIds, st \in {"APPROVED", "REJECTED"} :
              updateDocumentStatus(ReqClient(authHeader), d, st, "UNDEFINED")
         \/ bulkApproveDocuments(ReqClient(authHeader), DocIds)
         \/ \E c \in ClientIds : approveAllForClient(ReqClient(authHeader), c)

(* ---------------------------------------------------------------------- *)
(* Specification of the access control                                     *)
(* ---------------------------------------------------------------------- *)
BearerTokens ==
    {[clientId |-> c, email |-> e, type |-> ty, iat |-> t] :
        c \in ClientIds, e \in AuthEmails, ty \in {"access", "refresh"}, t \in 0..MaxTime}
    \cup {[clientId |-> c, email |-> e, type |-> "refresh", iat |-> t,
           secret |-> "access"] :
             c \in ClientIds, e \in AuthEmails, t \in 0..MaxTime}
    \cup {Garbage}

AuthHeaders ==
    {[scheme |-> "none"], [scheme |-> "Basic"]}
    \cup {[scheme |-> "Bearer", token |-> t] : t \in BearerTokens}

\* a signed token carries the clock of the moment it was signed at
Issuable(authHeader) ==
    (authHeader.scheme = "Bearer" /\ "iat" \in DOMAIN authHeader.token)
        => authHeader.token.iat <= now

\* the protected routes under a clock, with accounts that come and go
NextAccess ==
    \/ Tick
    \/ \E e \in AdminEmails : signup(e, "Secure123", "A", "B")
    \/ \E h \in AuthHeaders : Issuable(h) /\ DocumentRequest(h)
    \/ \E h \in AuthHeaders : Issuable(h) /\ ProfileRequest(h)
    \/ \E h \in AuthHeaders : Issuable(h) /\ AdminReadRequest(h)

SpecAccess == Init /\ [][NextAccess]_vars

\* the admin router in front of an admin and a client with documents
NextAdminAccess ==
    \/ \E e \in AdminEmails : signup(e, "Secure123", "A", "B")
    \/ makeAdmin("admin@b.com")
    \/ \E h \in AuthHeaders : Issuable(h) /\ DocumentRequest(h)
    \/ \E h \in AuthHeaders : Issuable(h) /\ AdminReadRequest(h)
    \/ \E h \in AuthHeaders : Issuable(h) /\ AdminWriteRequest(h)

SpecAdminAccess == Init /\ [][NextAdminAccess]_vars

(* ---------------------------------------------------------------------- *)
(* Properties of the access control                                        *)
(* ---------------------------------------------------------------------- *)
\* the bearer token is missing, malformed, expired, of a type other than
\* "access", or names a client that no longer exists
RejectedHeader(h) ==
    \/ h.scheme # "Bearer"
    \/ "iat" \notin DOMAIN h.token
    \/ h.token.type # "access"
    \/ now >= h.token.iat + AccessExpiresIn
    \/ clients[h.token.clientId] = Null

\* C18: a request to a protected route whose bearer token is missing,
\* malformed, expired, of a type other than "access", or whose client no
\* longer exists is answered with status 401 and changes no state.
C18_BadTokenIs401 ==
    [][\/ /\ last'.op = "authenticate"
          /\ last'.code = 401
          /\ UNCHANGED <<clients, nextClientId, now, authVars, onbVars, docVars>>
       \/ \A h \in AuthHeaders :
             ~(/\ RejectedHeader(h)
               /\ \/ DocumentRequest(h)
                  \/ ProfileRequest(h)
                  \/ AdminReadRequest(h))]_vars

C18_Witness ==
    /\ last.op = "authenticate"
    /\ last.code = 401
    /\ last.error = "Client not found"
    /\ \E c \in ClientIds : c < nextClientId /\ clients[c] = Null
    /\ \E d \in DocIds : d < nextDocId /\ documents[d] = Null

\* the responses of the handlers of the admin router
AdminOperations ==
    {"getStats", "getActivityLog", "getDocuments", "getClients",
     "updateDocumentStatus", "bulkApproveDocuments", "approveAllForClient"}

\* C19: every admin operation (stats, activity, documents, setStatus, bulk
\* approve, clients, approve-all) invoked by an authenticated client whose
\* role is not ADMIN fails with Forbidden and leaves every document and the
\* audit log unchanged.
C19_NonAdminForbidden ==
    [][last'.op \in AdminOperations =>
         \/ /\ last'.code = 403
            /\ documents' = documents
            /\ activityLog' = activityLog
         \/ \A h \in AuthHeaders :
               ~(/\ ~RejectedHeader(h)
                 /\ clients[h.token.clientId].role # "ADMIN"
                 /\ AdminReadRequest(h) \/ AdminWriteRequest(h))]_vars

C19_Witness ==
    /\ last.op = "bulkApproveDocuments"
    /\ last.code = 403
    /\ \E c \in ClientIds : clients[c] # Null /\ clients[c].role = "ADMIN"
    /\ \E c \in ClientIds : clients[c] # Null /\ clients[c].role = "USER"
    /\ \E d \in DocIds : /\ documents[d] # Null
                         /\ documents[d].verificationStatus = "PENDING"

(* ---------------------------------------------------------------------- *)
(* Token signing and verification (utils/jwt.ts)                           *)
(* ---------------------------------------------------------------------- *)
\* the claims jwt.verify decodes from a token
TokenPayload(token) ==
    [clientId |-> token.clientId, email |-> token.email, type |-> token.type]

\* what a verify function hands to its caller: the payload, or the error thrown
Verified(err, token) ==
    IF err = "ok" THEN [error |-> "ok", payload |-> TokenPayload(token)]
    ELSE [error |-> err, payload |-> Null]

signAccess(clientId, email) ==
    /\ last' = [op |-> "generateAccessToken", clientId |-> clientId, email |-> email,
                token |-> generateAccessToken(clientId, email)]
    /\ UNCHANGED <<clients, nextClientId, now, authVars, onbVars, docVars>>

signRefresh(clientId, email) ==
    /\ last' = [op |-> "generateRefreshToken", clientId |-> clientId, email |-> email,
                token |-> generateRefreshToken(clientId, email)]
    /\ UNCHANGED <<clients, nextClientId, now, authVars, onbVars, docVars>>

verifyAccess(token) ==
    /\ last' = [op |-> "verifyAccessToken", token |-> token,
                result |-> Verified(verifyAccessToken(token), token)]
    /\ UNCHANGED <<clients, nextClientId, now, authVars, onbVars, docVars>>

verifyRefresh(token) ==
    /\ last' = [op |-> "verifyRefreshToken", token |-> token,
                result |-> Verified(verifyRefreshToken(token), token)]
    /\ UNCHANGED <<clients, nextClientId, now, authVars, onbVars, docVars>>

\* the token a sign function has just returned
JustSigned == IF "token" \in DOMAIN last THEN {last.token} ELSE {}

\* the token functions applied to every payload, and the verify functions to
\* the token just signed and to every token string of the bounded universe
NextTokens ==
    \/ Tick
    \/ \E c \in ClientIds, e \in AdminEmails : signAccess(c, e)
    \/ \E c \in ClientIds, e \in AdminEmails : signRefresh(c, e)
    \/ \E t \in JustSigned \cup {b \in BearerTokens : Issuable([scheme |-> "Bearer", token |-> b])} :
          verifyAccess(t)
    \/ \E t \in JustSigned \cup {b \in BearerTokens : Issuable([scheme |-> "Bearer", token |-> b])} :
          verifyRefresh(t)

SpecTokens == Init /\ [][NextTokens]_vars

\* verifying the token that was just signed returns the payload it was
\* signed for, with the type of the sign function
RoundTrip ==
    /\ (last.op = "generateAccessToken" /\ last'.op = "verifyAccessToken"
            /\ last'.token = last.token)
          => last'.result = [error |-> "ok",
                             payload |-> [clientId |-> last.clientId,
                                          email |-> last.email, type |-> "access"]]
    /\ (last.op = "generateRefreshToken" /\ last'.op = "verifyRefreshToken"
            /\ last'.token = last.token)
          => last'.result = [error |-> "ok",
                             payload |-> [clientId |-> last.clientId,
                                          email |-> last.email, type |-> "refresh"]]

\* the token is one that generateAccessToken returns for some payload
IssuedAsAccess(token) ==
    /\ DOMAIN token = {"clientId", "email", "type", "iat"}
    /\ token.type = "access"

MaxRetries == 1
MaxSessions == 2

\* fetch rejected: offline, DNS failure
NetworkFailure == 0
RetryableStatuses == {408, 429, 500, 502, 503, 504}
Statuses == {200, 401, 503, NetworkFailure}

backendVars == <<clients, nextClientId, now, authVars, onbVars, documents, nextDocId,
                 activityLog, nextLogId, bulk>>

NoTokens == [accessToken |-> NoCookie, refreshToken |-> NoCookie]

\* setTokens with the pair the server has just issued
IssuedTokens == [accessToken |-> issued + 1, refreshToken |-> issued + 1]

\* AuthContext login and signup: setTokens(response.tokens)
setTokens ==
    /\ issued < MaxSessions
    /\ cookies' = IssuedTokens
    /\ issued' = issued + 1
    /\ last' = NoRequest
    /\ UNCHANGED <<backendVars, refreshPromise, fetches, refreshCalls, sessionExpired>>

\* AuthContext logout
clearTokens ==
    /\ cookies # NoTokens
    /\ cookies' = NoTokens
    /\ last' = NoRequest
    /\ UNCHANGED <<backendVars, refreshPromise, fetches, refreshCalls, sessionExpired,
                   issued>>

\* fetchWithAuth up to its fetch: the Authorization header carries the
\* access token cookie of this moment
fetchWithAuth(r) ==
    /\ fetches[r].pc = "idle"
    /\ fetches' = [fetches EXCEPT ![r] =
                     [pc |-> "fetching", accessToken |-> cookies.accessToken,
                      retryCount |-> 0, authRetries |-> 0, status |-> 0]]
    /\ last' = NoRequest
    /\ UNCHANGED <<backendVars, cookies, refreshPromise, refreshCalls, sessionExpired,
                   issued>>

RefreshPending_Never == FALSE

\* `if (!refreshPromise)`: a refresh is in progress
RefreshPending == refreshPromise # Null

\* the fetch of r settles: retry with backoff, or the 401 branch with the
\* refresh mutex, or the response is returned
respond(r, status) ==
    /\ fetches[r].pc = "fetching"
    /\ last' = NoRequest
    /\ IF (status = NetworkFailure \/ status \in RetryableStatuses)
            /\ fetches[r].retryCount < MaxRetries
       THEN /\ fetches' = [fetches EXCEPT ![r].pc = "sleeping"]
            /\ UNCHANGED <<refreshPromise, refreshCalls>>
       ELSE IF status = 401 /\ fetches[r].accessToken # NoCookie
       THEN IF RefreshPending
            THEN /\ fetches' = [fetches EXCEPT ![r].pc = "awaiting"]
                 /\ UNCHANGED <<refreshPromise, refreshCalls>>
            ELSE IF cookies.refreshToken = NoCookie
            THEN \* refreshAccessToken returns null before any fetch
                 /\ fetches' = [fetches EXCEPT ![r].pc = "done", ![r].status = status]
                 /\ UNCHANGED <<refreshPromise, refreshCalls>>
            ELSE /\ refreshPromise' = [refreshToken |-> cookies.refreshToken]
                 /\ refreshCalls' = refreshCalls + 1
                 /\ fetches' = [fetches EXCEPT ![r].pc = "awaiting"]
       ELSE /\ fetches' = [fetches EXCEPT ![r].pc = "done", ![r].status = status]
            /\ UNCHANGED <<refreshPromise, refreshCalls>>
    /\ UNCHANGED <<backendVars, cookies, sessionExpired, issued>>

\* after the backoff: fetchWithAuth(endpoint, options, retryCount + 1)
wake(r) ==
    /\ fetches[r].pc = "sleeping"
    /\ fetches' = [fetches EXCEPT ![r].pc = "fetching",
                                  ![r].accessToken = cookies.accessToken,
                                  ![r].retryCount = @ + 1]
    /\ last' = NoRequest
    /\ UNCHANGED <<backendVars, cookies, refreshPromise, refreshCalls, sessionExpired,
                   issued>>

Awaiting == {r \in Requests : fetches[r].pc = "awaiting"}

\* the fetch of /auth/refresh settles: refreshAccessToken stores the new
\* pair or clears the tokens and dispatches the session-expired event, the
\* finally callback resets refreshPromise, and every request that awaits
\* the promise goes on: with a new token it repeats its fetch once, without
\* one it returns its 401 response
refreshAccessToken(ok) ==
    /\ refreshCalls > 0
    /\ refreshCalls' = refreshCalls - 1
    /\ refreshPromise' = Null
    /\ IF ok
       THEN /\ issued < MaxSessions
            /\ cookies' = IssuedTokens
            /\ issued' = issued + 1
            /\ fetches' = [r \in Requests |->
                             IF r \in Awaiting
                             THEN [fetches[r] EXCEPT !.pc = "retrying",
                                                     !.accessToken = issued + 1,
                                                     !.authRetries = @ + 1]
                             ELSE fetches[r]]
            /\ last' = [op |-> "refreshAccessToken", ok |-> TRUE, resumed |-> Awaiting]
            /\ UNCHANGED sessionExpired
       ELSE /\ cookies' = NoTokens
            /\ sessionExpired' = sessionExpired + 1
            /\ fetches' = [r \in Requests |->
                             IF r \in Awaiting
                             THEN [fetches[r] EXCEPT !.pc = "done", !.status = 401]
                             ELSE fetches[r]]
            /\ last' = [op |-> "refreshAccessToken", ok |-> FALSE, resumed |-> Awaiting]
            /\ UNCHANGED issued
    /\ UNCHANGED backendVars

\* the repeated fetch settles: its response is returned as it is
retried(r, status) ==
    /\ fetches[r].pc = "retrying"
    /\ fetches' = [fetches EXCEPT ![r].pc = "done", ![r].status = status]
    /\ last' = NoRequest
    /\ UNCHANGED <<backendVars, cookies, refreshPromise, refreshCalls, sessionExpired,
                   issued>>

\* the caller has its response
returned(r) ==
    /\ fetches[r].pc = "done"
    /\ fetches' = [fetches EXCEPT ![r] = Idle]
    /\ last' = NoRequest
    /\ UNCHANGED <<backendVars, cookies, refreshPromise, refreshCalls, sessionExpired,
                   issued>>

NextFrontend ==
    \/ setTokens
    \/ clearTokens
    \/ \E r \in Requests : fetchWithAuth(r)
    \/ \E r \in Requests, st \in Statuses : respond(r, st)
    \/ \E r \in Requests : wake(r)
    \/ \E ok \in BOOLEAN : refreshAccessToken(ok)
    \/ \E r \in Requests, st \in Statuses : retried(r, st)
    \/ \E r \in Requests : returned(r)

SpecFrontend == Init /\ [][NextFrontend]_vars

\* at most one /auth/refresh call is in progress, and no request has
\* repeated its fetch with a new token more than once
OneRefreshOneRetry ==
    /\ refreshCalls <= 1
    /\ \A r \in Requests : fetches[r].pc # "idle" => fetches[r].authRetries <= 1

\* C27: when several in-flight requests receive 401, at most one call to
\* /auth/refresh is in progress at any moment; a request whose 401 arrives
\* while a refresh is pending starts no refresh and waits for the pending
\* one; when the refresh succeeds every waiting request repeats its fetch,
\* once, with the access token that refresh stored; when the refresh fails
\* the stored tokens are cleared and the session-expired event is
\* dispatched.
C27_SingleRefresh ==
    /\ []OneRefreshOneRetry
    /\ [][/\ \A r \in Requests, st \in Statuses :
               (respond(r, st) /\ refreshPromise # Null /\ fetches'[r].pc = "awaiting")
                  => refreshCalls' = refreshCalls /\ refreshPromise' = refreshPromise
          /\ (last'.op = "refreshAccessToken" /\ last'.ok)
                => /\ last'.resumed = Awaiting
                   /\ \A r \in Awaiting :
                         /\ fetches'[r].pc = "retrying"
                         /\ fetches'[r].accessToken = cookies'.accessToken
                         /\ fetches'[r].authRetries = 1
                   /\ cookies'.accessToken # cookies.accessToken
          /\ (last'.op = "refreshAccessToken" /\ ~last'.ok)
                => /\ cookies' = NoTokens
                   /\ sessionExpired' = sessionExpired + 1
                   /\ \A r \in Awaiting : fetches'[r].pc = "done"]_vars

C27_Witness ==
    /\ last.op = "refreshAccessToken"
    /\ last.ok
    /\ Cardinality(last.resumed) >= 2
    /\ \A r \in last.resumed :
          fetches[r].pc = "retrying" /\ fetches[r].accessToken = cookies.accessToken
    /\ refreshCalls = 0
    /\ refreshPromise = Null

====
